---------------------------- MODULE Spec2Model ----------------------------
(***************************************************************************)
(* The three 0/1 knapsack solvers of the repository, as one state machine: *)
(*   knapsack_dynamic_programming            (2D table)                    *)
(*   knapsack_dynamic_programming_optimized  (1D row + inclusion table)    *)
(*   knapsack_backtracking / backtrack       (recursion, explicit stack)   *)
(*   knapsack_branch_and_bound               (best-first priority queue)   *)
(* A caller holds the arrays pesos and valores and calls one solver after  *)
(* another with some capacity; each call runs step by step and returns a   *)
(* pair (maxValue, selectedIndices).                                       *)
(*                                                                         *)
(* C++ vectors are 0-based; sequences here are 1-based, so pesos[i - 1] of *)
(* the code is pesos[i] here.  Original indices (Item.indice, the returned *)
(* selectedIndices) keep the code's 0-based values.                        *)
(* Item.razao and No.limitante are doubles in the code; they are modelled  *)
(* as exact rationals (numerator and denominator), which is what the       *)
(* doubles order like for the small integers drawn here.                   *)
(***************************************************************************)
EXTENDS Integers, Sequences, FiniteSets

\* Bounds of the instances drawn by Init
MaxN == 2
MaxPeso == 2
MaxValor == 2
MaxCapacidade == 3

\* Bound of the input files read by the mains: the number of tokens
MaxTokens == 5

VARIABLES
    pesos,            \* the caller's weights array
    valores,          \* the caller's values array
    alg,              \* the solver being run: "nenhum", "dp", "dpo", "bt", "bb"
    pc,               \* position of the running call
    capacidade,       \* argument capacidade of the running call
    itens,            \* std::vector<Item> itens, after std::sort
    tabela,           \* dp: tabela[i][w];  dpo: tabela[w]
    selecionado,      \* dpo: selecionado[i][w]
    linha,            \* loop variable i of the fill loops
    pilha,            \* bt: the call stack of backtrack (top is the last frame)
    selecao_atual,    \* bt: working selection (shared by reference)
    valor_maximo,     \* bt: incumbent value (shared by reference)
    melhor_selecao,   \* bt: incumbent selection (shared by reference)
    fila_prioridade,  \* bb: std::priority_queue<No>
    lucro_maximo,     \* bb: incumbent value
    melhor_solucao,   \* bb: incumbent bit-vector, by original index
    resultado,        \* the pair returned by the call that just finished
    anterior,         \* what the caller remembers of its previous call
    arquivo,          \* main: the tokens of the input file not read yet
    saida             \* main: <<>> while running, <<code>> after return code

vars == <<pesos, valores, alg, pc, capacidade, itens, tabela, selecionado, linha,
          pilha, selecao_atual, valor_maximo, melhor_selecao,
          fila_prioridade, lucro_maximo, melhor_solucao, resultado, anterior,
          arquivo, saida>>

\* What belongs to the caller of a solver
instancia == <<pesos, valores, arquivo, saida>>
locaisDP == <<tabela, selecionado, linha>>
locaisBT == <<pilha, selecao_atual, valor_maximo, melhor_selecao>>
locaisBB == <<fila_prioridade, lucro_maximo, melhor_solucao>>

-----------------------------------------------------------------------------
\* Helpers

\* int n = pesos.size()
n == Len(pesos)

\* std::max on ints
Max(a, b) == IF a >= b THEN a ELSE b

\* Sum of f[i] over the indices i of the finite set S
RECURSIVE SomaEm(_, _)
SomaEm(f, S) ==
    IF S = {} THEN 0
    ELSE LET i == CHOOSE x \in S : TRUE IN f[i] + SomaEm(f, S \ {i})

\* Sum of f[i + 1] over the 0-based indices i listed in the sequence s (the
\* caller's array f at the returned indices)
RECURSIVE SomaIndices(_, _)
SomaIndices(f, s) ==
    IF s = <<>> THEN 0 ELSE f[Head(s) + 1] + SomaIndices(f, Tail(s))

\* The defaults of the locals of a solver that is not running
SemItens == <<>>
SemTabela == <<>>
SemFila == {}
SemResultado == [maxValue |-> 0, selectedIndices |-> <<>>]
SemAnterior == [alg |-> "nenhum", capacidade |-> 0, maxValue |-> 0, itens |-> SemItens]
SemArquivo == <<>>
SemSaida == <<>>

-----------------------------------------------------------------------------
\* The caller's well-formed instances: n items of positive integer weight and
\* non-negative integer value (n = 0 is the empty item set)
Instancias ==
    UNION {[1..k -> 1..MaxPeso] \X [1..k -> 0..MaxValor] : k \in 0..MaxN}

Capacidades == 0..MaxCapacidade

\* The calls the caller makes after its first one: the same solver again (on
\* any capacity) or any solver on the same capacity, which are the pairs of
\* results it compares
PodeChamar(a, c) ==
    anterior.alg = "nenhum" \/ anterior.alg = a \/ anterior.capacidade = c

Init ==
    /\ \E inst \in Instancias : pesos = inst[1] /\ valores = inst[2]
    /\ alg = "nenhum"
    /\ pc = "ocioso"
    /\ capacidade = 0
    /\ itens = SemItens
    /\ tabela = SemTabela
    /\ selecionado = SemTabela
    /\ linha = 0
    /\ pilha = <<>>
    /\ selecao_atual = <<>>
    /\ valor_maximo = 0
    /\ melhor_selecao = <<>>
    /\ fila_prioridade = SemFila
    /\ lucro_maximo = 0
    /\ melhor_solucao = <<>>
    /\ resultado = SemResultado
    /\ anterior = SemAnterior
    /\ arquivo = SemArquivo
    /\ saida = SemSaida

-----------------------------------------------------------------------------
\* knapsack_dynamic_programming (2D table)

\* Mutant: the cells start at a "not computed" sentinel instead of 0
TabelaZerada_Sentinela(c) == [i \in 0..n |-> [w \in 0..c |-> -1]]

\* tabela(n + 1, std::vector<int>(capacidade + 1, 0))
TabelaZerada(c) == [i \in 0..n |-> [w \in 0..c |-> 0]]

ChamarDP(c) ==
    /\ pc = "ocioso"
    /\ PodeChamar("dp", c)
    /\ alg' = "dp"
    /\ capacidade' = c
    /\ tabela' = TabelaZerada(c)
    /\ linha' = 1
    /\ pc' = "preenche"
    /\ UNCHANGED <<instancia, itens, selecionado, locaisBT, locaisBB, resultado, anterior>>

\* Mutant: an item is considered only in columns strictly above its weight
LinhaDP_Estrito(tab, i) ==
    [w \in 0..capacidade |->
        IF pesos[i] < w
        THEN Max(tab[i - 1][w], tab[i - 1][w - pesos[i]] + valores[i])
        ELSE tab[i - 1][w]]

\* Mutant: an item that fits is always taken, without the std::max
LinhaDP_SemMax(tab, i) ==
    [w \in 0..capacidade |->
        IF pesos[i] <= w
        THEN tab[i - 1][w - pesos[i]] + valores[i]
        ELSE tab[i - 1][w]]

\* One pass of the inner loop over w, for item i: row i from row i - 1
LinhaDP(tab, i) ==
    [w \in 0..capacidade |->
        IF pesos[i] <= w
        THEN Max(tab[i - 1][w], tab[i - 1][w - pesos[i]] + valores[i])
        ELSE tab[i - 1][w]]

\* One iteration of the outer fill loop
DPPreencher ==
    /\ alg = "dp" /\ pc = "preenche"
    /\ linha <= n
    /\ tabela' = [tabela EXCEPT ![linha] = LinhaDP(tabela, linha)]
    /\ linha' = linha + 1
    /\ UNCHANGED <<instancia, alg, pc, capacidade, itens, selecionado,
                   locaisBT, locaisBB, resultado, anterior>>

\* Mutant: the reconstruction forgets w -= pesos[i - 1]
RECURSIVE ReconstruirDP_SemPeso(_, _, _, _)
ReconstruirDP_SemPeso(tab, i, w, acc) ==
    IF i = 0 THEN acc
    ELSE IF tab[i][w] # tab[i - 1][w]
         THEN ReconstruirDP_SemPeso(tab, i - 1, w, Append(acc, i - 1))
         ELSE ReconstruirDP_SemPeso(tab, i - 1, w, acc)

\* The reconstruction loop: for (i = n; i > 0; i--), from column w
RECURSIVE ReconstruirDP(_, _, _, _)
ReconstruirDP(tab, i, w, acc) ==
    IF i = 0 THEN acc
    ELSE IF tab[i][w] # tab[i - 1][w]
         THEN ReconstruirDP(tab, i - 1, w - pesos[i], Append(acc, i - 1))
         ELSE ReconstruirDP(tab, i - 1, w, acc)

\* The fill loop has ended: reconstruct and return
DPRetornar ==
    /\ alg = "dp" /\ pc = "preenche"
    /\ linha > n
    /\ resultado' = [maxValue |-> tabela[n][capacidade],
                     selectedIndices |-> ReconstruirDP(tabela, n, capacidade, <<>>)]
    /\ pc' = "retornou"
    /\ UNCHANGED <<instancia, alg, capacidade, itens, locaisDP,
                   locaisBT, locaisBB, anterior>>

-----------------------------------------------------------------------------
\* knapsack_dynamic_programming_optimized (1D row, inclusion table)

\* tabela(capacidade + 1, 0)
LinhaZerada(c) == [w \in 0..c |-> 0]

\* selecionado(n + 1, std::vector<bool>(capacidade + 1, false))
SelecionadoZerado(c) == [i \in 0..n |-> [w \in 0..c |-> FALSE]]

ChamarDPO(c) ==
    /\ pc = "ocioso"
    /\ PodeChamar("dpo", c)
    /\ alg' = "dpo"
    /\ capacidade' = c
    /\ tabela' = LinhaZerada(c)
    /\ selecionado' = SelecionadoZerado(c)
    /\ linha' = 1
    /\ pc' = "preenche"
    /\ UNCHANGED <<instancia, itens, locaisBT, locaisBB, resultado, anterior>>

\* Mutant: the inner loop stops one column early (w > pesos[i - 1])
RECURSIVE PassoDPO_Estrito(_, _, _)
PassoDPO_Estrito(ts, i, w) ==
    IF w <= pesos[i] THEN ts
    ELSE IF valores[i] + ts[1][w - pesos[i]] > ts[1][w]
         THEN PassoDPO_Estrito(<<[ts[1] EXCEPT ![w] = valores[i] + ts[1][w - pesos[i]]],
                                 [ts[2] EXCEPT ![i][w] = TRUE]>>, i, w - 1)
         ELSE PassoDPO_Estrito(ts, i, w - 1)

\* Mutant: the inner loop takes the item also when the value only ties
RECURSIVE PassoDPO_OuIgual(_, _, _)
PassoDPO_OuIgual(ts, i, w) ==
    IF w < pesos[i] THEN ts
    ELSE IF valores[i] + ts[1][w - pesos[i]] >= ts[1][w]
         THEN PassoDPO_OuIgual(<<[ts[1] EXCEPT ![w] = valores[i] + ts[1][w - pesos[i]]],
                                 [ts[2] EXCEPT ![i][w] = TRUE]>>, i, w - 1)
         ELSE PassoDPO_OuIgual(ts, i, w - 1)

\* The inner loop for item i: for (w = capacidade; w >= pesos[i - 1]; --w),
\* run from w on the pair ts = <<tabela, selecionado>>
RECURSIVE PassoDPO(_, _, _)
PassoDPO(ts, i, w) ==
    IF w < pesos[i] THEN ts
    ELSE IF valores[i] + ts[1][w - pesos[i]] > ts[1][w]
         THEN PassoDPO(<<[ts[1] EXCEPT ![w] = valores[i] + ts[1][w - pesos[i]]],
                         [ts[2] EXCEPT ![i][w] = TRUE]>>, i, w - 1)
         ELSE PassoDPO(ts, i, w - 1)

\* One iteration of the outer fill loop
DPOPreencher ==
    /\ alg = "dpo" /\ pc = "preenche"
    /\ linha <= n
    /\ LET ts == PassoDPO(<<tabela, selecionado>>, linha, capacidade) IN
         /\ tabela' = ts[1]
         /\ selecionado' = ts[2]
    /\ linha' = linha + 1
    /\ UNCHANGED <<instancia, alg, pc, capacidade, itens,
                   locaisBT, locaisBB, resultado, anterior>>

\* The reconstruction loop: for (i = n; i > 0; --i), from column w
RECURSIVE ReconstruirDPO(_, _, _, _)
ReconstruirDPO(sel, i, w, acc) ==
    IF i = 0 THEN acc
    ELSE IF sel[i][w]
         THEN ReconstruirDPO(sel, i - 1, w - pesos[i], Append(acc, i - 1))
         ELSE ReconstruirDPO(sel, i - 1, w, acc)

\* Mutant: the reconstructed list is not reversed
Reverse_Nada(s) == s

\* std::reverse
Reverse(s) == [k \in 1..Len(s) |-> s[Len(s) + 1 - k]]

\* The fill loop has ended: reconstruct, reverse and return
DPORetornar ==
    /\ alg = "dpo" /\ pc = "preenche"
    /\ linha > n
    /\ resultado' = [maxValue |-> tabela[capacidade],
                     selectedIndices |->
                         Reverse(ReconstruirDPO(selecionado, n, capacidade, <<>>))]
    /\ pc' = "retornou"
    /\ UNCHANGED <<instancia, alg, capacidade, itens, locaisDP,
                   locaisBT, locaisBB, anterior>>

-----------------------------------------------------------------------------
\* The density sort shared by knapsack_backtracking and knapsack_branch_and_bound

\* Item of original index i - 1 (razao = valor / peso is kept as the two ints)
ItemDe(i) == [peso |-> pesos[i], valor |-> valores[i], indice |-> i - 1]

\* Mutant: the comparator sorts by ascending ratio
RazaoMaior_Invertida(a, b) == a.valor * b.peso < b.valor * a.peso

\* The comparator of std::sort: a.razao > b.razao, weights positive
RazaoMaior(a, b) == a.valor * b.peso > b.valor * a.peso

\* The permutations of 1..n
Permutacoes == {p \in [1..n -> 1..n] : \A i, j \in 1..n : p[i] = p[j] => i = j}

\* What std::sort may leave in itens: any permutation in which no item comes
\* before one the comparator puts before it (the order of items of equal
\* razao is whatever the sort does)
Ordenacoes ==
    {s \in {[k \in 1..n |-> ItemDe(p[k])] : p \in Permutacoes} :
        \A i, j \in 1..n : i < j => ~RazaoMaior(s[j], s[i])}

-----------------------------------------------------------------------------
\* knapsack_backtracking and backtrack

\* valor_total: the sum of all values
ValorTotal == SomaEm(valores, 1..n)

\* The frame of one call backtrack(indice, peso_atual, valor_atual, ...,
\* valor_restante); fase is where the call stands
Quadro(i, p, v, r) ==
    [indice |-> i, peso_atual |-> p, valor_atual |-> v, valor_restante |-> r,
     fase |-> "entrada"]

ChamarBT(c) ==
    /\ pc = "ocioso"
    /\ PodeChamar("bt", c)
    /\ alg' = "bt"
    /\ capacidade' = c
    /\ itens' \in Ordenacoes
    /\ selecao_atual' = <<>>
    /\ melhor_selecao' = <<>>
    /\ valor_maximo' = 0
    /\ pilha' = <<Quadro(0, 0, 0, ValorTotal)>>
    /\ pc' = "busca"
    /\ UNCHANGED <<instancia, locaisDP, locaisBB, resultado, anterior>>

Topo == pilha[Len(pilha)]
Desempilhar == SubSeq(pilha, 1, Len(pilha) - 1)
NoTopo(q) == [pilha EXCEPT ![Len(pilha)] = q]

\* Mutant: the bound prune forgets valor_atual
PodaValor_SemAtual(q) == q.valor_restante <= valor_maximo

\* The two prunes at the entry of backtrack
PodaValor(q) == q.valor_atual + q.valor_restante <= valor_maximo
PodaPeso(q) == q.peso_atual > capacidade
Podado(q) == PodaValor(q) \/ PodaPeso(q)

\* Mutant: the include branch is entered whatever the item weighs
CabeItem_Sempre(q) == TRUE

\* Mutant: an item that fills the knapsack exactly is not included
CabeItem_Estrito(q) == q.peso_atual + itens[q.indice + 1].peso < capacidade

\* if (peso_atual + itens[indice].peso <= capacidade)
CabeItem(q) == q.peso_atual + itens[q.indice + 1].peso <= capacidade

\* Mutant: the include call does not add the item's weight to peso_atual
QuadroIncluir_SemPeso(q) ==
    Quadro(q.indice + 1, q.peso_atual,
           q.valor_atual + itens[q.indice + 1].valor,
           q.valor_restante - itens[q.indice + 1].valor)

\* Mutant: the skip call passes valor_restante on unchanged
QuadroPular_SemRestante(q) ==
    Quadro(q.indice + 1, q.peso_atual, q.valor_atual, q.valor_restante)

\* The frame of the recursive call that includes, or skips, item q.indice
QuadroIncluir(q) ==
    Quadro(q.indice + 1, q.peso_atual + itens[q.indice + 1].peso,
           q.valor_atual + itens[q.indice + 1].valor,
           q.valor_restante - itens[q.indice + 1].valor)
QuadroPular(q) ==
    Quadro(q.indice + 1, q.peso_atual, q.valor_atual,
           q.valor_restante - itens[q.indice + 1].valor)

\* Entry of a call that a prune ends at once
BTPodar ==
    /\ alg = "bt" /\ pc = "busca" /\ pilha # <<>>
    /\ Topo.fase = "entrada"
    /\ Podado(Topo)
    /\ pilha' = Desempilhar
    /\ UNCHANGED <<instancia, alg, pc, capacidade, itens, locaisDP, selecao_atual,
                   valor_maximo, melhor_selecao, locaisBB, resultado, anterior>>

\* Entry of a call at the base case: all items considered
BTFolha ==
    /\ alg = "bt" /\ pc = "busca" /\ pilha # <<>>
    /\ Topo.fase = "entrada"
    /\ ~Podado(Topo)
    /\ Topo.indice = Len(itens)
    /\ IF Topo.valor_atual > valor_maximo
       THEN /\ valor_maximo' = Topo.valor_atual
            /\ melhor_selecao' = selecao_atual
       ELSE UNCHANGED <<valor_maximo, melhor_selecao>>
    /\ pilha' = Desempilhar
    /\ UNCHANGED <<instancia, alg, pc, capacidade, itens, locaisDP, selecao_atual,
                   locaisBB, resultado, anterior>>

\* Mutant: the include branch is left out, the skip call is made at once
BTIncluir_SoPula ==
    /\ alg = "bt" /\ pc = "busca" /\ pilha # <<>>
    /\ Topo.fase = "entrada"
    /\ ~Podado(Topo)
    /\ Topo.indice # Len(itens)
    /\ CabeItem(Topo)
    /\ pilha' = Append(NoTopo([Topo EXCEPT !.fase = "pulando"]), QuadroPular(Topo))
    /\ UNCHANGED <<instancia, alg, pc, capacidade, itens, locaisDP, selecao_atual,
                   valor_maximo, melhor_selecao, locaisBB, resultado, anterior>>

\* Entry of a call whose item fits: push it and make the include call
BTIncluir ==
    /\ alg = "bt" /\ pc = "busca" /\ pilha # <<>>
    /\ Topo.fase = "entrada"
    /\ ~Podado(Topo)
    /\ Topo.indice # Len(itens)
    /\ CabeItem(Topo)
    /\ selecao_atual' = Append(selecao_atual, itens[Topo.indice + 1].indice)
    /\ pilha' = Append(NoTopo([Topo EXCEPT !.fase = "incluindo"]), QuadroIncluir(Topo))
    /\ UNCHANGED <<instancia, alg, pc, capacidade, itens, locaisDP,
                   valor_maximo, melhor_selecao, locaisBB, resultado, anterior>>

\* Mutant: the include call has returned and pop_back is forgotten
BTDesfazer_SemPop ==
    /\ alg = "bt" /\ pc = "busca" /\ pilha # <<>>
    /\ Topo.fase = "incluindo"
    /\ pilha' = Append(NoTopo([Topo EXCEPT !.fase = "pulando"]), QuadroPular(Topo))
    /\ UNCHANGED <<instancia, alg, pc, capacidade, itens, locaisDP, selecao_atual,
                   valor_maximo, melhor_selecao, locaisBB, resultado, anterior>>

\* The include call has returned: pop_back, then make the skip call
BTDesfazer ==
    /\ alg = "bt" /\ pc = "busca" /\ pilha # <<>>
    /\ Topo.fase = "incluindo"
    /\ selecao_atual' = SubSeq(selecao_atual, 1, Len(selecao_atual) - 1)
    /\ pilha' = Append(NoTopo([Topo EXCEPT !.fase = "pulando"]), QuadroPular(Topo))
    /\ UNCHANGED <<instancia, alg, pc, capacidade, itens, locaisDP,
                   valor_maximo, melhor_selecao, locaisBB, resultado, anterior>>

\* Entry of a call whose item does not fit: make the skip call only
BTPular ==
    /\ alg = "bt" /\ pc = "busca" /\ pilha # <<>>
    /\ Topo.fase = "entrada"
    /\ ~Podado(Topo)
    /\ Topo.indice # Len(itens)
    /\ ~CabeItem(Topo)
    /\ pilha' = Append(NoTopo([Topo EXCEPT !.fase = "pulando"]), QuadroPular(Topo))
    /\ UNCHANGED <<instancia, alg, pc, capacidade, itens, locaisDP, selecao_atual,
                   valor_maximo, melhor_selecao, locaisBB, resultado, anterior>>

\* The skip call has returned: the call returns
BTVoltar ==
    /\ alg = "bt" /\ pc = "busca" /\ pilha # <<>>
    /\ Topo.fase = "pulando"
    /\ pilha' = Desempilhar
    /\ UNCHANGED <<instancia, alg, pc, capacidade, itens, locaisDP, selecao_atual,
                   valor_maximo, melhor_selecao, locaisBB, resultado, anterior>>

\* std::sort(melhor_selecao.begin(), melhor_selecao.end()) on distinct ints:
\* insertion of x into the ascending sequence s
RECURSIVE Inserir(_, _)
Inserir(x, s) ==
    IF s = <<>> THEN <<x>>
    ELSE IF x < Head(s) THEN <<x>> \o s
         ELSE <<Head(s)>> \o Inserir(x, Tail(s))

RECURSIVE Ordenar(_)
Ordenar(s) == IF s = <<>> THEN <<>> ELSE Inserir(Head(s), Ordenar(Tail(s)))

\* The root call has returned: sort the incumbent selection and return
BTRetornar ==
    /\ alg = "bt" /\ pc = "busca" /\ pilha = <<>>
    /\ resultado' = [maxValue |-> valor_maximo,
                     selectedIndices |-> Ordenar(melhor_selecao)]
    /\ pc' = "retornou"
    /\ UNCHANGED <<instancia, alg, capacidade, itens, locaisDP, locaisBT,
                   locaisBB, anterior>>

-----------------------------------------------------------------------------
\* knapsack_branch_and_bound, No and calcular_limitante

\* A double that holds the rational num / den (den > 0)
Fracao(num, den) == [num |-> num, den |-> den]

\* a < b, a <= k and a > k on those doubles (k an int)
FracaoMenor(a, b) == a.num * b.den < b.num * a.den
FracaoMenorIgualInt(a, k) == a.num <= k * a.den
\* Mutant: a limitante equal to the incumbent counts as promising
FracaoMaiorInt_OuIgual(a, k) == a.num >= k * a.den

FracaoMaiorInt(a, k) == a.num > k * a.den

\* No(int n): nivel(0), lucro(0), peso(0), limitante(0), selecionados(n, false)
NoInicial ==
    [nivel |-> 0, lucro |-> 0, peso |-> 0, limitante |-> Fracao(0, 1),
     selecionados |-> [i \in 0..(n - 1) |-> FALSE]]

\* Mutant: the limitante leaves out the fraction of the first item that does
\* not fit
RECURSIVE LimitanteDesde_SemFracao(_, _, _)
LimitanteDesde_SemFracao(i, peso_atual, limitante) ==
    IF i < Len(itens) /\ peso_atual + itens[i + 1].peso <= capacidade
    THEN LimitanteDesde_SemFracao(i + 1, peso_atual + itens[i + 1].peso,
                                  limitante + itens[i + 1].valor)
    ELSE Fracao(limitante, 1)

\* The while loop of calcular_limitante from position i (0-based) with the
\* running peso_atual and limitante, then the fractional part of item i
RECURSIVE LimitanteDesde(_, _, _)
LimitanteDesde(i, peso_atual, limitante) ==
    IF i < Len(itens) /\ peso_atual + itens[i + 1].peso <= capacidade
    THEN LimitanteDesde(i + 1, peso_atual + itens[i + 1].peso,
                        limitante + itens[i + 1].valor)
    ELSE IF i < Len(itens)
         THEN Fracao(limitante * itens[i + 1].peso
                         + (capacidade - peso_atual) * itens[i + 1].valor,
                     itens[i + 1].peso)
         ELSE Fracao(limitante, 1)

\* Mutant: the limitante is the profit collected so far, nothing added
calcular_limitante_SoLucro(no) == Fracao(no.lucro, 1)

\* calcular_limitante(no, itens, capacidade)
calcular_limitante(no) ==
    IF no.peso > capacidade THEN Fracao(0, 1)
    ELSE LimitanteDesde(no.nivel, no.peso, no.lucro)

\* Mutant: std::sort is applied to the caller's arrays, which the solver
\* receives by non-const reference
ChamarBB_NoLugar(c) ==
    /\ pc = "ocioso"
    /\ PodeChamar("bb", c)
    /\ alg' = "bb"
    /\ capacidade' = c
    /\ itens' \in Ordenacoes
    /\ pesos' = [k \in 1..n |-> itens'[k].peso]
    /\ valores' = [k \in 1..n |-> itens'[k].valor]
    /\ lucro_maximo' = 0
    /\ melhor_solucao' = [i \in 0..(n - 1) |-> FALSE]
    /\ pc' = "raiz"
    /\ UNCHANGED <<locaisDP, locaisBT, fila_prioridade, resultado, anterior,
                   arquivo, saida>>

ChamarBB(c) ==
    /\ pc = "ocioso"
    /\ PodeChamar("bb", c)
    /\ alg' = "bb"
    /\ capacidade' = c
    /\ itens' \in Ordenacoes
    /\ lucro_maximo' = 0
    /\ melhor_solucao' = [i \in 0..(n - 1) |-> FALSE]
    /\ pc' = "raiz"
    /\ UNCHANGED <<instancia, locaisDP, locaisBT, fila_prioridade, resultado, anterior>>

\* No raiz(n); raiz.limitante = calcular_limitante(raiz, ...); push
BBRaiz ==
    /\ alg = "bb" /\ pc = "raiz"
    /\ fila_prioridade' = {[NoInicial EXCEPT !.limitante = calcular_limitante(NoInicial)]}
    /\ pc' = "laco"
    /\ UNCHANGED <<instancia, alg, capacidade, itens, locaisDP, locaisBT,
                   lucro_maximo, melhor_solucao, resultado, anterior>>

\* Mutant: the comparison is reversed, which makes the queue a min-heap
NoMenor_Invertido(a, b) == FracaoMenor(b.limitante, a.limitante)

\* No::operator<
NoMenor(a, b) == FracaoMenor(a.limitante, b.limitante)

\* What top() may return: a node that is not less than any other in the queue
\* (which one among nodes of equal limitante is up to the heap)
NoTopoDaFila(no) ==
    /\ no \in fila_prioridade
    /\ \A outro \in fila_prioridade : ~NoMenor(no, outro)

\* if (no.limitante <= lucro_maximo) continue;
BBPodar ==
    /\ alg = "bb" /\ pc = "laco"
    /\ \E no \in fila_prioridade :
         /\ NoTopoDaFila(no)
         /\ FracaoMenorIgualInt(no.limitante, lucro_maximo)
         /\ fila_prioridade' = fila_prioridade \ {no}
    /\ UNCHANGED <<instancia, alg, pc, capacidade, itens, locaisDP, locaisBT,
                   lucro_maximo, melhor_solucao, resultado, anterior>>

\* if (no.nivel == n) { update the incumbent if better; continue; }
BBFolha ==
    /\ alg = "bb" /\ pc = "laco"
    /\ \E no \in fila_prioridade :
         /\ NoTopoDaFila(no)
         /\ ~FracaoMenorIgualInt(no.limitante, lucro_maximo)
         /\ no.nivel = n
         /\ IF no.lucro > lucro_maximo
            THEN /\ lucro_maximo' = no.lucro
                 /\ melhor_solucao' = no.selecionados
            ELSE UNCHANGED <<lucro_maximo, melhor_solucao>>
         /\ fila_prioridade' = fila_prioridade \ {no}
    /\ UNCHANGED <<instancia, alg, pc, capacidade, itens, locaisDP, locaisBT,
                   resultado, anterior>>

\* Mutant: the include child does not add the item's value to lucro
NoIncluir_SemLucro(no) ==
    [no EXCEPT !.nivel = no.nivel + 1,
               !.peso = no.peso + itens[no.nivel + 1].peso,
               !.selecionados[itens[no.nivel + 1].indice] = TRUE]

\* Mutant: the include child marks the sorted position, not the original index
NoIncluir_Posicao(no) ==
    [no EXCEPT !.nivel = no.nivel + 1,
               !.peso = no.peso + itens[no.nivel + 1].peso,
               !.lucro = no.lucro + itens[no.nivel + 1].valor,
               !.selecionados[no.nivel] = TRUE]

\* no_incluir, before its limitante is computed
NoIncluir(no) ==
    [no EXCEPT !.nivel = no.nivel + 1,
               !.peso = no.peso + itens[no.nivel + 1].peso,
               !.lucro = no.lucro + itens[no.nivel + 1].valor,
               !.selecionados[itens[no.nivel + 1].indice] = TRUE]

\* Mutant: the exclude child stays on its parent's level
NoExcluir_SemNivel(no) == no

\* no_excluir, before its limitante is computed
NoExcluir(no) == [no EXCEPT !.nivel = no.nivel + 1]

ComLimitante(no) == [no EXCEPT !.limitante = calcular_limitante(no)]

\* Mutant: the include child is considered whatever its weight
CabeNo_Sempre(inc) == TRUE

\* if (no_incluir.peso <= capacidade): the include child is considered at all
CabeNo(inc) == inc.peso <= capacidade

\* The include child updates the incumbent: a complete, better, feasible node
IncluirMelhora(inc) ==
    inc.nivel = n /\ inc.lucro > lucro_maximo /\ inc.peso <= capacidade

\* The body of the loop for a node that is expanded: the include child, then
\* the exclude child, each pushed if its limitante exceeds the incumbent
BBExpandir ==
    /\ alg = "bb" /\ pc = "laco"
    /\ \E no \in fila_prioridade :
         /\ NoTopoDaFila(no)
         /\ ~FracaoMenorIgualInt(no.limitante, lucro_maximo)
         /\ no.nivel # n
         /\ LET cabe == CabeNo(NoIncluir(no))
                inc == IF cabe THEN ComLimitante(NoIncluir(no)) ELSE NoIncluir(no)
                melhora == cabe /\ IncluirMelhora(inc)
                lucro1 == IF melhora THEN inc.lucro ELSE lucro_maximo
                solucao1 == IF melhora THEN inc.selecionados ELSE melhor_solucao
                empilhaInc == cabe /\ FracaoMaiorInt(inc.limitante, lucro1)
                exc == ComLimitante(NoExcluir(no))
                empilhaExc == FracaoMaiorInt(exc.limitante, lucro1)
            IN /\ lucro_maximo' = lucro1
               /\ melhor_solucao' = solucao1
               /\ fila_prioridade' =
                    ((fila_prioridade \ {no})
                        \cup (IF empilhaInc THEN {inc} ELSE {}))
                        \cup (IF empilhaExc THEN {exc} ELSE {})
    /\ UNCHANGED <<instancia, alg, pc, capacidade, itens, locaisDP, locaisBT,
                   resultado, anterior>>

\* Mutant: the conversion collects the positions that are not set
RECURSIVE IndicesSelecionados_Invertido(_, _)
IndicesSelecionados_Invertido(sol, from) ==
    IF from >= n THEN <<>>
    ELSE IF ~sol[from] THEN <<from>> \o IndicesSelecionados_Invertido(sol, from + 1)
         ELSE IndicesSelecionados_Invertido(sol, from + 1)

\* The 0-based indices i in from..(n - 1) with sol[i], ascending
RECURSIVE IndicesSelecionados(_, _)
IndicesSelecionados(sol, from) ==
    IF from >= n THEN <<>>
    ELSE IF sol[from] THEN <<from>> \o IndicesSelecionados(sol, from + 1)
         ELSE IndicesSelecionados(sol, from + 1)

\* The queue is empty: convert the incumbent bit-vector and return
BBRetornar ==
    /\ alg = "bb" /\ pc = "laco"
    /\ fila_prioridade = {}
    /\ resultado' = [maxValue |-> lucro_maximo,
                     selectedIndices |-> IndicesSelecionados(melhor_solucao, 0)]
    /\ pc' = "retornou"
    /\ UNCHANGED <<instancia, alg, capacidade, itens, locaisDP, locaisBT,
                   locaisBB, anterior>>

-----------------------------------------------------------------------------
\* The caller

\* The caller takes the returned pair and the call's locals are destroyed
Retornar ==
    /\ pc = "retornou"
    /\ anterior' = [alg |-> alg, capacidade |-> capacidade,
                    maxValue |-> resultado.maxValue, itens |-> itens]
    /\ alg' = "nenhum"
    /\ pc' = "ocioso"
    /\ capacidade' = 0
    /\ itens' = SemItens
    /\ tabela' = SemTabela
    /\ selecionado' = SemTabela
    /\ linha' = 0
    /\ pilha' = <<>>
    /\ selecao_atual' = <<>>
    /\ valor_maximo' = 0
    /\ melhor_selecao' = <<>>
    /\ fila_prioridade' = SemFila
    /\ lucro_maximo' = 0
    /\ melhor_solucao' = <<>>
    /\ resultado' = SemResultado
    /\ UNCHANGED instancia

-----------------------------------------------------------------------------
\* One solver call, from the call to the return of the pair
Next ==
    \/ \E c \in Capacidades : ChamarDP(c)
    \/ DPPreencher
    \/ DPRetornar
    \/ \E c \in Capacidades : ChamarDPO(c)
    \/ DPOPreencher
    \/ DPORetornar
    \/ \E c \in Capacidades : ChamarBT(c)
    \/ BTPodar
    \/ BTFolha
    \/ BTIncluir
    \/ BTDesfazer
    \/ BTPular
    \/ BTVoltar
    \/ BTRetornar
    \/ \E c \in Capacidades : ChamarBB(c)
    \/ BBRaiz
    \/ BBPodar
    \/ BBFolha
    \/ BBExpandir
    \/ BBRetornar

Spec == Init /\ [][Next]_vars

\* Solver calls one after another on the same arrays
NextSeq == Next \/ Retornar

SpecSeq == Init /\ [][NextSeq]_vars

-----------------------------------------------------------------------------
\* The documented instances

\* The example instance of the README (output/instances/instancia_teste.txt)
InstanciaReadme ==
    [capacidade |-> 100, pesos |-> <<10, 20, 30, 40, 50>>,
     valores |-> <<60, 100, 120, 160, 200>>]

\* The single-item instance solve(10, [5], [60])
InstanciaUmItem == [capacidade |-> 10, pesos |-> <<5>>, valores |-> <<60>>]

InstanciasLiterais == {InstanciaReadme, InstanciaUmItem}

InitLiteral ==
    /\ \E inst \in InstanciasLiterais : pesos = inst.pesos /\ valores = inst.valores
    /\ alg = "nenhum"
    /\ pc = "ocioso"
    /\ capacidade = 0
    /\ itens = SemItens
    /\ tabela = SemTabela
    /\ selecionado = SemTabela
    /\ linha = 0
    /\ pilha = <<>>
    /\ selecao_atual = <<>>
    /\ valor_maximo = 0
    /\ melhor_selecao = <<>>
    /\ fila_prioridade = SemFila
    /\ lucro_maximo = 0
    /\ melhor_solucao = <<>>
    /\ resultado = SemResultado
    /\ anterior = SemAnterior
    /\ arquivo = SemArquivo
    /\ saida = SemSaida

\* The capacity a documented instance is solved with
CapacidadesLiterais ==
    {inst.capacidade : inst \in {l \in InstanciasLiterais :
                                    l.pesos = pesos /\ l.valores = valores}}

\* One solver call on a documented instance with its capacity
NextLiteral ==
    \/ \E c \in CapacidadesLiterais : ChamarDP(c)
    \/ DPPreencher
    \/ DPRetornar
    \/ \E c \in CapacidadesLiterais : ChamarDPO(c)
    \/ DPOPreencher
    \/ DPORetornar
    \/ \E c \in CapacidadesLiterais : ChamarBT(c)
    \/ BTPodar
    \/ BTFolha
    \/ BTIncluir
    \/ BTDesfazer
    \/ BTPular
    \/ BTVoltar
    \/ BTRetornar
    \/ \E c \in CapacidadesLiterais : ChamarBB(c)
    \/ BBRaiz
    \/ BBPodar
    \/ BBFolha
    \/ BBExpandir
    \/ BBRetornar

SpecLiteral == InitLiteral /\ [][NextLiteral]_vars

\* The instances of the two dynamic-programming variants, which compute no
\* value/weight ratio: non-negative weights, zero included
InstanciasDP ==
    UNION {[1..k -> 0..MaxPeso] \X [1..k -> 0..MaxValor] : k \in 0..MaxN}

InitDP ==
    /\ \E inst \in InstanciasDP : pesos = inst[1] /\ valores = inst[2]
    /\ alg = "nenhum"
    /\ pc = "ocioso"
    /\ capacidade = 0
    /\ itens = SemItens
    /\ tabela = SemTabela
    /\ selecionado = SemTabela
    /\ linha = 0
    /\ pilha = <<>>
    /\ selecao_atual = <<>>
    /\ valor_maximo = 0
    /\ melhor_selecao = <<>>
    /\ fila_prioridade = SemFila
    /\ lucro_maximo = 0
    /\ melhor_solucao = <<>>
    /\ resultado = SemResultado
    /\ anterior = SemAnterior
    /\ arquivo = SemArquivo
    /\ saida = SemSaida

\* One call of a dynamic-programming variant
NextDP ==
    \/ \E c \in Capacidades : ChamarDP(c)
    \/ DPPreencher
    \/ DPRetornar
    \/ \E c \in Capacidades : ChamarDPO(c)
    \/ DPOPreencher
    \/ DPORetornar

SpecDP == InitDP /\ [][NextDP]_vars

\* A solver is sequential code on one thread: a call that can take a step
\* takes it
SpecJusto == Spec /\ WF_vars(Next)

\* The bounded instances and the documented ones together
SpecGeral == (Init \/ InitLiteral) /\ [][Next \/ NextLiteral]_vars

-----------------------------------------------------------------------------
\* The mains run_dynamic_programming, run_backtracking, run_branch_and_bound:
\* the same code up to the solver each one calls

\* A whitespace-separated token of the input file: an integer that
\* operator>> extracts, or text on which the extraction fails
Numero(k) == [numero |-> TRUE, valor |-> k]
NaoNumero == [numero |-> FALSE, valor |-> 0]
Tokens == {Numero(k) : k \in -1..1} \cup {NaoNumero}

Arquivos == UNION {[1..k -> Tokens] : k \in 0..MaxTokens}

InitCLI ==
    /\ arquivo \in Arquivos
    /\ saida = SemSaida
    /\ pesos = <<>>
    /\ valores = <<>>
    /\ alg = "nenhum"
    /\ pc = "inicio"
    /\ capacidade = 0
    /\ itens = SemItens
    /\ tabela = SemTabela
    /\ selecionado = SemTabela
    /\ linha = 0
    /\ pilha = <<>>
    /\ selecao_atual = <<>>
    /\ valor_maximo = 0
    /\ melhor_selecao = <<>>
    /\ fila_prioridade = SemFila
    /\ lucro_maximo = 0
    /\ melhor_solucao = <<>>
    /\ resultado = SemResultado
    /\ anterior = SemAnterior

locaisSolver == <<alg, itens, locaisDP, locaisBT, locaisBB, resultado, anterior>>

\* return codigo
Sair(codigo) == saida' = <<codigo>> /\ pc' = "saiu"

\* if (argc != 2) return 1;  if (!infile.is_open()) return 1
CLIAbrir ==
    /\ pc = "inicio"
    /\ \E aberto \in BOOLEAN :
          IF aberto THEN pc' = "capacidade" /\ saida' = saida ELSE Sair(1)
    /\ UNCHANGED <<pesos, valores, capacidade, arquivo, locaisSolver>>

\* if (!(infile >> capacidade)) return 1
CLILerCapacidade ==
    /\ pc = "capacidade"
    /\ IF arquivo # <<>> /\ Head(arquivo).numero
       THEN /\ capacidade' = Head(arquivo).valor
            /\ arquivo' = Tail(arquivo)
            /\ pc' = "pares"
            /\ saida' = saida
       ELSE /\ Sair(1)
            /\ UNCHANGED <<capacidade, arquivo>>
    /\ UNCHANGED <<pesos, valores, locaisSolver>>

\* infile >> peso >> valor succeeds
TemPar == Len(arquivo) >= 2 /\ arquivo[1].numero /\ arquivo[2].numero

\* One iteration of while (infile >> peso >> valor)
CLILerPar ==
    /\ pc = "pares"
    /\ TemPar
    /\ arquivo' = Tail(Tail(arquivo))
    /\ LET peso == arquivo[1].valor
           valor == arquivo[2].valor
       IN  IF peso < 0 \/ valor < 0
           THEN /\ Sair(1)
                /\ UNCHANGED <<pesos, valores>>
           ELSE /\ pesos' = Append(pesos, peso)
                /\ valores' = Append(valores, valor)
                /\ UNCHANGED <<pc, saida>>
    /\ UNCHANGED <<capacidade, locaisSolver>>

\* The loop ends; infile.close(); if (pesos.empty()) return 1
CLIFimDosPares ==
    /\ pc = "pares"
    /\ ~TemPar
    /\ arquivo' = SemArquivo
    /\ IF pesos = <<>> THEN Sair(1) ELSE pc' = "ocioso" /\ saida' = saida
    /\ UNCHANGED <<pesos, valores, capacidade, locaisSolver>>

\* The arguments lie within what the solver actions above model: a capacity
\* >= 0 and positive weights
ArgumentosModelados == capacidade >= 0 /\ \A i \in 1..n : pesos[i] >= 1

\* What the process can end with when the solver is called on other
\* arguments: normal return, or an exception caught by main
SaidasForaDoModelo == {<<0>>, <<1>>}

\* The solver call on arguments outside ArgumentosModelados, and the return
\* of main after it
CLIChamarFora ==
    /\ pc = "ocioso"
    /\ ~ArgumentosModelados
    /\ alg' \in {"dp", "bt", "bb"}
    /\ pc' = "saiu"
    /\ saida' \in SaidasForaDoModelo
    /\ UNCHANGED <<pesos, valores, capacidade, arquivo, itens, locaisDP,
                   locaisBT, locaisBB, resultado, anterior>>

\* The results are printed; return 0
CLISair0 ==
    /\ pc = "retornou"
    /\ Sair(0)
    /\ UNCHANGED <<pesos, valores, capacidade, arquivo, locaisSolver>>

NextCLI ==
    \/ CLIAbrir
    \/ CLILerCapacidade
    \/ CLILerPar
    \/ CLIFimDosPares
    \/ ArgumentosModelados /\ ChamarDP(capacidade)
    \/ ArgumentosModelados /\ ChamarBT(capacidade)
    \/ ArgumentosModelados /\ ChamarBB(capacidade)
    \/ CLIChamarFora
    \/ DPPreencher
    \/ DPRetornar
    \/ BTPodar
    \/ BTFolha
    \/ BTIncluir
    \/ BTDesfazer
    \/ BTPular
    \/ BTVoltar
    \/ BTRetornar
    \/ BBRaiz
    \/ BBPodar
    \/ BBFolha
    \/ BBExpandir
    \/ BBRetornar
    \/ CLISair0

SpecCLI == InitCLI /\ [][NextCLI]_vars

\* for (int indice : itens_selecionados) std::cout << indice + 1 << " "
ItensImpressos(sel) == [k \in 1..Len(sel) |-> sel[k] + 1]

-----------------------------------------------------------------------------
\* Properties

Retornou == pc = "retornou"

\* Brute-force reference: the best total value of a subset of the items whose
\* total weight is <= c
ForcaBruta(c) ==
    LET viaveis == {S \in SUBSET (1..n) : SomaEm(pesos, S) <= c}
        v == CHOOSE x \in {SomaEm(valores, S) : S \in viaveis} :
                 \A S \in viaveis : SomaEm(valores, S) <= x
    IN v

EstritamenteCrescente(s) == \A k \in 1..(Len(s) - 1) : s[k] < s[k + 1]
EstritamenteDecrescente(s) == \A k \in 1..(Len(s) - 1) : s[k] > s[k + 1]
IndicesValidos(s) == \A k \in 1..Len(s) : s[k] \in 0..(n - 1)

\* Some items are left out of every feasible selection of the running call
NemTudoCabe == SomaEm(pesos, 1..n) > capacidade

\* C1: for n >= 1 items of positive weight and capacity >= 0, each of
\* knapsack_dynamic_programming, knapsack_backtracking and
\* knapsack_branch_and_bound returns as maxValue the brute-force optimum.
C1_ValorOtimo ==
    (Retornou /\ alg \in {"dp", "bt", "bb"} /\ n >= 1)
        => resultado.maxValue = ForcaBruta(capacidade)

C1_Witness ==
    /\ Retornou /\ alg = "bt" /\ n >= 2 /\ NemTudoCabe
    /\ resultado.maxValue > 0
    /\ resultado.maxValue = ForcaBruta(capacidade)

\* C2: on the same instance and capacity, two different solvers among the 2D
\* DP, the optimized DP, backtracking and branch-and-bound return the same
\* maxValue.
C2_MesmoValorEntreAlgoritmos ==
    (Retornou /\ anterior.alg # "nenhum" /\ anterior.alg # alg
        /\ anterior.capacidade = capacidade)
        => resultado.maxValue = anterior.maxValue

C2_Witness ==
    /\ Retornou /\ anterior.alg = "dpo" /\ alg = "bb"
    /\ anterior.capacidade = capacidade /\ NemTudoCabe
    /\ resultado.maxValue > 0
    /\ resultado.maxValue = anterior.maxValue

\* C3: for every solver, the weights of the caller's array at the returned
\* selectedIndices sum to at most the capacity.
C3_SelecaoViavel ==
    Retornou => SomaIndices(pesos, resultado.selectedIndices) <= capacidade

\* a selection that fills the knapsack while some item is left out
C3_Witness ==
    /\ Retornou /\ alg = "dp" /\ NemTudoCabe
    /\ Len(resultado.selectedIndices) >= 1
    /\ SomaIndices(pesos, resultado.selectedIndices) = capacidade

\* C4: for every solver, maxValue is the sum of the values of the caller's
\* array (original order) at the returned selectedIndices.
C4_ValorDaSelecao ==
    Retornou => resultado.maxValue = SomaIndices(valores, resultado.selectedIndices)

\* a selected item whose position after the density sort is not its index
C4_Witness ==
    /\ Retornou /\ alg = "bb" /\ resultado.maxValue > 0
    /\ \E k \in 1..n :
         /\ itens[k].indice # k - 1
         /\ \E j \in 1..Len(resultado.selectedIndices) :
              resultado.selectedIndices[j] = itens[k].indice
    /\ resultado.maxValue = SomaIndices(valores, resultado.selectedIndices)

\* C5: knapsack_dynamic_programming, knapsack_backtracking and
\* knapsack_branch_and_bound each return selectedIndices strictly ascending,
\* every index in [0, n).
C5_IndicesAscendentes ==
    (Retornou /\ alg \in {"dp", "bt", "bb"})
        => /\ EstritamenteCrescente(resultado.selectedIndices)
           /\ IndicesValidos(resultado.selectedIndices)

\* C6: knapsack_dynamic_programming returns its indices strictly descending
\* (not reversed); knapsack_dynamic_programming_optimized returns them
\* strictly ascending.
C6_OrdemDosIndicesDP ==
    /\ (Retornou /\ alg = "dp") => EstritamenteDecrescente(resultado.selectedIndices)
    /\ (Retornou /\ alg = "dpo") => EstritamenteCrescente(resultado.selectedIndices)

C6_Witness ==
    /\ Retornou /\ alg = "dpo"
    /\ Len(resultado.selectedIndices) >= 2
    /\ EstritamenteCrescente(resultado.selectedIndices)

\* C7: for a solver and fixed weights and values, a call with capacity W1 and
\* a call with capacity W2 >= W1 return maxValues in that order (<=).
C7_MonotonoNaCapacidade ==
    (Retornou /\ anterior.alg = alg)
        => /\ anterior.capacidade <= capacidade
                => anterior.maxValue <= resultado.maxValue
           /\ anterior.capacidade >= capacidade
                => anterior.maxValue >= resultado.maxValue

C7_Witness ==
    /\ Retornou /\ anterior.alg = alg /\ alg = "bt"
    /\ anterior.capacidade < capacidade
    /\ anterior.maxValue < resultado.maxValue

\* C8: two executions of the same solver on the same instance and capacity
\* return the same maxValue, whatever order the density sort gave to items of
\* equal ratio in each execution.
C8_MesmoValorNasDuasExecucoes ==
    (Retornou /\ anterior.alg = alg /\ anterior.capacidade = capacidade)
        => resultado.maxValue = anterior.maxValue

\* two branch-and-bound executions whose sorts ordered the ties differently
C8_Witness ==
    /\ Retornou /\ anterior.alg = alg /\ alg = "bb"
    /\ anterior.capacidade = capacidade
    /\ anterior.itens # itens
    /\ NemTudoCabe /\ resultado.maxValue > 0
    /\ resultado.maxValue = anterior.maxValue

\* C9: for every solver, capacity 0 with all weights > 0 and n >= 1 gives
\* maxValue = 0 and selectedIndices = [].
C9_CapacidadeZero ==
    (Retornou /\ capacidade = 0 /\ n >= 1)
        => resultado = [maxValue |-> 0, selectedIndices |-> <<>>]

C9_Witness ==
    /\ Retornou /\ capacidade = 0 /\ alg = "bb" /\ n >= 2
    /\ \E i \in 1..n : valores[i] > 0
    /\ resultado = [maxValue |-> 0, selectedIndices |-> <<>>]

\* C10: for every solver, n = 0 and capacity >= 0 give (0, []), and the run
\* touches no item: no fill iteration, no recursive call below the root call
\* of backtrack, no node besides the root in the queue.
C10_SemItens ==
    n = 0 =>
        /\ Retornou => resultado = [maxValue |-> 0, selectedIndices |-> <<>>]
        /\ alg \in {"dp", "dpo"} => linha = 1
        /\ alg = "bt" => Len(pilha) <= 1 /\ selecao_atual = <<>>
        /\ alg = "bb" => \A no \in fila_prioridade : no.nivel = 0

C10_Witness ==
    /\ Retornou /\ n = 0 /\ alg = "dp" /\ capacidade > 0
    /\ resultado = [maxValue |-> 0, selectedIndices |-> <<>>]

\* The running call solves the README instance with its capacity
NoReadme ==
    /\ pesos = InstanciaReadme.pesos /\ valores = InstanciaReadme.valores
    /\ capacidade = InstanciaReadme.capacidade

UmItemQueCabe == n = 1 /\ valores[1] > 0 /\ pesos[1] <= capacidade

\* C13: every solver, on a single-item instance whose item has positive
\* value and weight <= capacity, returns (value, [0]); solve(10, [5], [60])
\* returns (60, [0]).
C13_UmItem ==
    (Retornou /\ UmItemQueCabe)
        => resultado = [maxValue |-> valores[1], selectedIndices |-> <<0>>]

C13_Witness ==
    /\ Retornou /\ alg = "bb"
    /\ pesos = InstanciaUmItem.pesos /\ valores = InstanciaUmItem.valores
    /\ capacidade = InstanciaUmItem.capacidade
    /\ resultado = [maxValue |-> 60, selectedIndices |-> <<0>>]

\* C14: on every well-formed instance the backtracking recursion returns and
\* the branch-and-bound loop terminates; branch-and-bound leaves its loop
\* exactly when the priority queue is empty (it returns only from an empty
\* queue, and an empty queue only returns), so every node pushed is popped.
C14_Termina ==
    /\ (alg = "bt") ~> (Retornou /\ pilha = <<>>)
    /\ (alg = "bb") ~> (Retornou /\ fila_prioridade = {})
    /\ [][(alg = "bb" /\ pc = "laco" /\ pc' = "retornou")
             => fila_prioridade = {}]_vars
    /\ [][(alg = "bb" /\ pc = "laco" /\ fila_prioridade = {})
             => pc' = "retornou"]_vars

\* A branch-and-bound call that pushed and popped nodes of both items has
\* returned from an empty queue with a packed knapsack
C14_Witness ==
    /\ Retornou /\ alg = "bb" /\ n = 2
    /\ fila_prioridade = {}
    /\ Len(resultado.selectedIndices) = 1
    /\ NemTudoCabe

\* A solver is entered
Entrada == pc = "ocioso" /\ pc' # "ocioso"

\* The locals a solver starts from are built from its arguments alone
LocaisNovos ==
    /\ alg' \in {"dp", "dpo"} => linha' = 1
    /\ alg' = "dp" => tabela' = TabelaZerada(capacidade')
    /\ alg' = "dpo" => /\ tabela' = LinhaZerada(capacidade')
                       /\ selecionado' = SelecionadoZerado(capacidade')
    /\ alg' = "bt" => /\ valor_maximo' = 0
                      /\ melhor_selecao' = <<>>
                      /\ selecao_atual' = <<>>
                      /\ Len(pilha') = 1
    /\ alg' = "bb" => /\ lucro_maximo' = 0
                      /\ fila_prioridade' = {}
                      /\ \A i \in 0..(n - 1) : ~melhor_solucao'[i]

\* C15: every solver is a pure function of (capacity, weights, values): no
\* step of a call changes the caller's weights or values, every call starts
\* from freshly built locals, and a call made after other calls returns the
\* optimum with a selection of that value, equal to what the same solver
\* returned before on the same capacity.
C15_Puro ==
    /\ [][pesos' = pesos /\ valores' = valores]_vars
    /\ [][Entrada => LocaisNovos]_vars
    /\ []((Retornou /\ anterior.alg # "nenhum")
            => /\ resultado.maxValue = ForcaBruta(capacidade)
               /\ SomaIndices(valores, resultado.selectedIndices)
                      = resultado.maxValue
               /\ SomaIndices(pesos, resultado.selectedIndices) <= capacidade
               /\ (anterior.alg = alg /\ anterior.capacidade = capacidade)
                      => resultado.maxValue = anterior.maxValue)

\* A second branch-and-bound call, after one that sorted a copy of items
\* that were not in ratio order, has returned a non-empty selection
C15_Witness ==
    /\ Retornou /\ alg = "bb" /\ anterior.alg = "bb"
    /\ n = 2 /\ RazaoMaior(ItemDe(2), ItemDe(1))
    /\ anterior.itens[1].indice = 1
    /\ resultado.selectedIndices # <<>>

\* The arguments of the solver call are a well-formed instance
BemFormada ==
    /\ capacidade >= 0
    /\ n >= 1
    /\ \A i \in 1..n : pesos[i] >= 0 /\ valores[i] >= 0

\* C16 as stated: the mains invoke their solver only with capacity >= 0,
\* weights and values >= 0 and at least one item; a run that ends without
\* calling the solver ends with exit code 1.
C16_CLIValida ==
    /\ alg # "nenhum" => BemFormada
    /\ (saida # SemSaida /\ alg = "nenhum") => saida = <<1>>

\* The best total value of a subset of the first i items of weight <= w
MelhorDosPrimeiros(i, w) ==
    LET cabem == {S \in SUBSET (1..i) : SomaEm(pesos, S) <= w}
    IN  CHOOSE v \in {SomaEm(valores, S) : S \in cabem} :
            \A S \in cabem : SomaEm(valores, S) <= v

\* C17: in knapsack_dynamic_programming every filled cell tabela[i][w] is
\* the best total value of a subset of the first i items with total weight
\* <= w (so it is for all i in 0..n once the fill loop has ended), row 0 is
\* all zeros, and the value returned is tabela[n][W].
C17_TabelaDP ==
    (alg = "dp" /\ pc \in {"preenche", "retornou"})
        => /\ \A i \in 0..(linha - 1) : \A w \in 0..capacidade :
                  tabela[i][w] = MelhorDosPrimeiros(i, w)
           /\ \A w \in 0..capacidade : tabela[0][w] = 0
           /\ pc = "retornou" => /\ linha = n + 1
                                 /\ resultado.maxValue = tabela[n][capacidade]

\* A filled table with a cell where leaving the second item out is strictly
\* better than taking it, and a cell where taking it is strictly better
C17_Witness ==
    /\ alg = "dp" /\ Retornou /\ n = 2
    /\ \E w \in pesos[2]..capacidade :
          tabela[1][w - pesos[2]] + valores[2] < tabela[1][w]
    /\ \E w \in pesos[2]..capacidade : tabela[2][w] > tabela[1][w]

\* The node's lucro and peso are those of the items it has selected, all of
\* them among the sorted positions below its nivel
DecisoesDoNo(no) ==
    LET dentro == {k \in 1..no.nivel : no.selecionados[itens[k].indice]}
    IN  /\ no.lucro = SomaEm([k \in 1..n |-> itens[k].valor], dentro)
        /\ no.peso = SomaEm([k \in 1..n |-> itens[k].peso], dentro)
        /\ \A k \in (no.nivel + 1)..n : ~no.selecionados[itens[k].indice]

\* The limitante of the node is >= the profit of every feasible complete
\* assignment that keeps the node's decisions and decides the sorted
\* positions from nivel on
LimitanteCobre(no) ==
    \A S \in SUBSET ((no.nivel + 1)..n) :
        no.peso + SomaEm([k \in 1..n |-> itens[k].peso], S) <= capacidade
            => (no.lucro + SomaEm([k \in 1..n |-> itens[k].valor], S))
                   * no.limitante.den <= no.limitante.num

\* C18: every node on which calcular_limitante is evaluated (the root, the
\* include child that fits and the exclude child of a queued node), with
\* items sorted by non-increasing value/weight and positive weights, gets a
\* limitante >= the profit of every feasible completion of its decisions.
C18_LimitanteSuperior ==
    (alg = "bb" /\ pc \in {"raiz", "laco"})
        => /\ pc = "raiz" => LimitanteCobre(ComLimitante(NoInicial))
           /\ \A no \in fila_prioridade :
                  /\ DecisoesDoNo(no)
                  /\ LimitanteCobre(no)
                  /\ no.nivel < n =>
                        /\ CabeNo(NoIncluir(no))
                              => LimitanteCobre(ComLimitante(NoIncluir(no)))
                        /\ LimitanteCobre(ComLimitante(NoExcluir(no)))

\* A queued node below the root whose limitante has a fractional part, so
\* it lies strictly above every completion
C18_Witness ==
    /\ alg = "bb" /\ pc = "laco"
    /\ \E no \in fila_prioridade :
          /\ no.nivel = 1 /\ no.lucro > 0
          /\ no.limitante.num % no.limitante.den # 0
          /\ LimitanteCobre(no)

\* Every node that enters the queue in this step has a limitante strictly
\* greater than the incumbent at the time of the push (the incumbent after
\* the update that precedes the push in the loop body)
EmpilhaSoPromissor ==
    \A no \in fila_prioridade' \ fila_prioridade :
        no.limitante.num > lucro_maximo' * no.limitante.den

\* A node popped in this step with limitante <= the incumbent is discarded:
\* nothing enters the queue and the incumbent stays
DescartaNoPodado ==
    \A no \in fila_prioridade \ fila_prioridade' :
        no.limitante.num <= lucro_maximo * no.limitante.den
            => /\ fila_prioridade' = fila_prioridade \ {no}
               /\ lucro_maximo' = lucro_maximo
               /\ melhor_solucao' = melhor_solucao

\* C19 as stated: in knapsack_branch_and_bound a node is pushed only if its
\* limitante is strictly greater than the incumbent at push time, and a
\* popped node with limitante <= the incumbent is discarded without children
\* and without changing the incumbent.
C19_TodoNoPromissor ==
    [][alg' = "bb" => (EmpilhaSoPromissor /\ DescartaNoPodado)]_vars

\* C19 amended: every node other than the root is pushed only if its
\* limitante is strictly greater than the incumbent at push time (the root
\* is pushed unconditionally, also with limitante 0 = incumbent), and a
\* popped node with limitante <= the incumbent, the root included, is
\* discarded without children and without changing the incumbent.
C19_FilhosPromissores ==
    [][alg' = "bb" => /\ pc = "laco" => EmpilhaSoPromissor
                      /\ pc = "raiz" =>
                            fila_prioridade' = {ComLimitante(NoInicial)}
                      /\ DescartaNoPodado]_vars

\* The node on top of the queue was pushed as promising and now has a
\* limitante equal to a positive incumbent: it is about to be discarded
C19_Witness ==
    /\ alg = "bb" /\ pc = "laco"
    /\ lucro_maximo > 0
    /\ \E no \in fila_prioridade :
          /\ NoTopoDaFila(no)
          /\ no.nivel >= 1
          /\ no.limitante.num = lucro_maximo * no.limitante.den

\* The node popped in this step has a limitante >= that of every node that
\* was in the queue with it
TiraOMelhor ==
    \A no \in fila_prioridade \ fila_prioridade' :
        \A outro \in fila_prioridade :
            outro.limitante.num * no.limitante.den
                <= no.limitante.num * outro.limitante.den

\* The root (nivel 0, lucro 0, peso 0) is alone in the queue: nothing was
\* pushed before it and nothing is pushed until it is popped
RaizSozinha ==
    \A no \in fila_prioridade :
        no.nivel = 0 => /\ fila_prioridade = {no}
                        /\ no.lucro = 0 /\ no.peso = 0

\* C20: in knapsack_branch_and_bound every node taken from the queue has a
\* limitante >= that of every node still in the queue at that moment; the
\* root is the first node pushed (into an empty queue) and the first popped
\* (the first pop finds it alone in the queue).
C20_MelhorPrimeiro ==
    /\ [][alg' = "bb" => TiraOMelhor]_vars
    /\ [][(alg' = "bb" /\ pc = "raiz")
             => /\ fila_prioridade = {}
                /\ \E no \in fila_prioridade' : no.nivel = 0]_vars
    /\ [](alg = "bb" => RaizSozinha)

\* The queue holds two nodes of different limitante, so the pop has to
\* choose
C20_Witness ==
    /\ alg = "bb" /\ pc = "laco"
    /\ \E a, b \in fila_prioridade :
          a.limitante.num * b.limitante.den > b.limitante.num * a.limitante.den

\* C21: in knapsack_branch_and_bound no node whose weight exceeds the
\* capacity is in the queue (so none is pushed, popped or expanded), and
\* every node handed to calcular_limitante (the root, the include child that
\* passes the guard, the exclude child) has weight <= capacity, so the
\* branch that returns 0 for an overweight node is never taken.
C21_SemNoPesado ==
    alg = "bb" =>
        /\ pc = "raiz" => NoInicial.peso <= capacidade
        /\ \A no \in fila_prioridade :
              /\ no.peso <= capacidade
              /\ no.nivel < n =>
                    /\ CabeNo(NoIncluir(no))
                          => NoIncluir(no).peso <= capacidade
                    /\ NoExcluir(no).peso <= capacidade

\* The node about to be expanded has an include child that is too heavy and
\* is dropped
C21_Witness ==
    /\ alg = "bb" /\ pc = "laco"
    /\ \E no \in fila_prioridade :
          /\ NoTopoDaFila(no)
          /\ no.nivel < n
          /\ no.limitante.num > lucro_maximo * no.limitante.den
          /\ NoIncluir(no).peso > capacidade
          /\ no.peso > 0

\* The item of the call q fits on top of what q carries
ItemCabe(q) == q.peso_atual + itens[q.indice + 1].peso <= capacidade

\* The call at depth k makes its skip call in this step
EntraNoPular(k) ==
    /\ k \in 1..Len(pilha) /\ k \in 1..Len(pilha')
    /\ pilha[k].fase # "pulando"
    /\ pilha'[k].fase = "pulando"

\* The calls above depth k on the stack: none when k is the running call
SubarvoreRetornou(k) == k = Len(pilha)

\* C22: in backtrack, a call that is neither pruned nor a leaf makes its
\* skip call only as the running call (nothing of its include subtree is
\* left on the stack), after its include call has returned if the item fits
\* and directly from its entry only if the item does not fit; an include
\* call is made only with the item's weight within the capacity and, while
\* in progress, is the call right above.
C22_IncluirAntesDePular ==
    /\ [][alg' = "bt" =>
            \A k \in 1..Len(pilha) :
                EntraNoPular(k)
                    => /\ SubarvoreRetornou(k)
                       /\ Len(pilha') = k + 1
                       /\ IF ItemCabe(pilha[k])
                          THEN pilha[k].fase = "incluindo"
                          ELSE pilha[k].fase = "entrada"]_vars
    /\ [](alg = "bt" =>
            \A k \in 1..Len(pilha) :
                pilha[k].fase = "incluindo"
                    => /\ ItemCabe(pilha[k])
                       /\ k < Len(pilha) =>
                             pilha[k + 1].peso_atual
                                = pilha[k].peso_atual
                                     + itens[pilha[k].indice + 1].peso)

\* A skip subtree is being explored below a call whose item fits, after its
\* include subtree found an incumbent
C22_Witness ==
    /\ alg = "bt" /\ pc = "busca"
    /\ valor_maximo > 0
    /\ \E k \in 1..(Len(pilha) - 1) :
          /\ pilha[k].fase = "pulando"
          /\ ItemCabe(pilha[k])
          /\ pilha[k + 1].fase = "entrada"

\* The original indices pushed by the calls of the stack p that are in
\* their include branch, outermost first
RECURSIVE Incluidos(_)
Incluidos(p) ==
    IF p = <<>> THEN <<>>
    ELSE IF Head(p).fase = "incluindo"
         THEN <<itens[Head(p).indice + 1].indice>> \o Incluidos(Tail(p))
         ELSE Incluidos(Tail(p))

\* C23: the working selection selecao_atual holds exactly the items pushed
\* by the calls that are inside their include branch, so a call that
\* returns, whatever was pruned or recorded inside it, leaves selecao_atual
\* as it was when the call was entered; the return itself does not touch it
\* and the root call returns with selecao_atual empty.
C23_SelecaoRestaurada ==
    /\ [](alg = "bt" => selecao_atual = Incluidos(pilha))
    /\ [][(alg' = "bt" /\ Len(pilha') < Len(pilha))
             => /\ selecao_atual' = selecao_atual
                /\ pilha' = SubSeq(pilha, 1, Len(pilha) - 1)]_vars
    /\ []((alg = "bt" /\ pilha = <<>>) => selecao_atual = <<>>)

\* The call below an include branch has pushed and popped its own item and
\* is about to return: the selection holds only the outer item again
C23_Witness ==
    /\ alg = "bt" /\ pc = "busca"
    /\ Len(pilha) = 2
    /\ pilha[1].fase = "incluindo"
    /\ pilha[2].fase = "pulando"
    /\ ItemCabe(pilha[2])
    /\ selecao_atual = <<itens[1].indice>>
    /\ valor_maximo > 0

\* The values of the sorted items, by sorted position 1..n
ValoresOrdenados == [k \in 1..n |-> itens[k].valor]

\* The sorted positions of the items the calls below depth k have excluded
\* (the calls that are in their skip call)
Excluidos(k) == {j + 1 : j \in {pilha[d].indice : d \in
                    {e \in 1..(k - 1) : pilha[e].fase = "pulando"}}}

\* C24: every call backtrack(indice, ...) was entered with valor_restante
\* equal to the sum of the values of the sorted items at positions
\* indice..n-1 (all values at the root, 0 at a leaf) and with valor_atual +
\* valor_restante equal to the total value minus the values of the items
\* excluded on the way to it.
C24_ValorRestante ==
    alg = "bt" =>
        \A k \in 1..Len(pilha) :
            /\ pilha[k].indice \in 0..n
            /\ pilha[k].valor_restante
                  = SomaEm(ValoresOrdenados, (pilha[k].indice + 1)..n)
            /\ pilha[k].valor_atual + pilha[k].valor_restante
                  = ValorTotal - SomaEm(ValoresOrdenados, Excluidos(k))

\* A leaf call reached by excluding the first sorted item, which has a
\* positive value, and including the second
C24_Witness ==
    /\ alg = "bt" /\ pc = "busca"
    /\ Len(pilha) = 3
    /\ pilha[1].fase = "pulando" /\ pilha[2].fase = "incluindo"
    /\ itens[1].valor > 0
    /\ pilha[1].valor_restante = ValorTotal
    /\ pilha[3].valor_restante = 0
    /\ pilha[3].valor_atual = itens[2].valor
    /\ pilha[3].valor_atual > 0

\* The 0-based original indices set in the bit-vector sol, as 1-based
\* positions of the caller's arrays
Marcados(sol) == {i + 1 : i \in {j \in 0..(n - 1) : sol[j]}}

\* C25: at every step of knapsack_backtracking and knapsack_branch_and_bound
\* the incumbent is a feasible solution (the items in melhor_selecao /
\* melhor_solucao weigh at most capacidade and are worth exactly
\* valor_maximo / lucro_maximo), and every update of the incumbent strictly
\* increases its value.
C25_IncumbenteViavel ==
    /\ [](alg = "bt" =>
            /\ SomaIndices(pesos, melhor_selecao) <= capacidade
            /\ SomaIndices(valores, melhor_selecao) = valor_maximo)
    /\ [](alg = "bb" =>
            /\ SomaEm(pesos, Marcados(melhor_solucao)) <= capacidade
            /\ SomaEm(valores, Marcados(melhor_solucao)) = lucro_maximo)
    /\ [][(alg = "bt" /\ pc' = "busca"
              /\ <<valor_maximo, melhor_selecao>>' # <<valor_maximo, melhor_selecao>>)
             => valor_maximo' > valor_maximo]_vars
    /\ [][(alg = "bb" /\ pc' = "laco"
              /\ <<lucro_maximo, melhor_solucao>>' # <<lucro_maximo, melhor_solucao>>)
             => lucro_maximo' > lucro_maximo]_vars

\* Branch-and-bound has replaced a first incumbent by a better one
C25_Witness ==
    /\ alg = "bb" /\ pc = "laco"
    /\ lucro_maximo = ForcaBruta(capacidade)
    /\ lucro_maximo >= 2
    /\ NemTudoCabe
    /\ \E no \in fila_prioridade :
          no.nivel = n /\ no.lucro > 0 /\ no.lucro < lucro_maximo

\* The table of knapsack_dynamic_programming after the rows 1..i are filled
RECURSIVE TabelaAte(_)
TabelaAte(i) ==
    IF i = 0 THEN TabelaZerada(capacidade)
    ELSE LET t == TabelaAte(i - 1) IN [t EXCEPT ![i] = LinhaDP(t, i)]

\* The pair <<tabela, selecionado>> of the optimized variant after the items
\* 1..i are processed
RECURSIVE PreenchidoAte(_)
PreenchidoAte(i) ==
    IF i = 0 THEN <<LinhaZerada(capacidade), SelecionadoZerado(capacidade)>>
    ELSE PassoDPO(PreenchidoAte(i - 1), i, capacidade)

\* What each variant returns as index list on the running call's arguments
ListaDP == ReconstruirDP(TabelaAte(n), n, capacidade, <<>>)
ListaDPO ==
    Reverse(ReconstruirDPO(PreenchidoAte(n)[2], n, capacidade, <<>>))

\* C26: for capacity >= 0 and non-negative weights and values, the index
\* list returned by knapsack_dynamic_programming_optimized is exactly the
\* reverse of the list knapsack_dynamic_programming returns on the same
\* arguments: the two variants select the same items.
C26_ListaInvertida ==
    /\ (Retornou /\ alg = "dpo")
          => resultado.selectedIndices
                = [k \in 1..Len(ListaDP) |-> ListaDP[Len(ListaDP) + 1 - k]]
    /\ (Retornou /\ alg = "dp")
          => ListaDPO = [k \in 1..Len(resultado.selectedIndices) |->
                            resultado.selectedIndices[
                                Len(resultado.selectedIndices) + 1 - k]]

\* The optimized variant has returned both items, the first of weight 0,
\* in ascending order, where the 2D variant lists them descending
C26_Witness ==
    /\ Retornou /\ alg = "dpo" /\ n = 2
    /\ resultado.selectedIndices = <<0, 1>>
    /\ ListaDP = <<1, 0>>
    /\ pesos[1] = 0 /\ pesos[2] > 0
    /\ valores[1] > 0 /\ valores[2] > 0

\* a <= b and a = b on limitantes
LimitanteMenorIgual(a, b) == a.num * b.den <= b.num * a.den
LimitanteIgual(a, b) == a.num * b.den = b.num * a.den

\* C27: in knapsack_branch_and_bound, with bounds as exact rationals, the
\* limitante of the include child (when it fits) equals its parent's and
\* that of the exclude child is <= its parent's; when a node is popped,
\* every node left or pushed in the queue has a limitante <= the popped
\* one's, so the limitantes of the successively popped nodes never increase.
C27_LimitanteNaoCresce ==
    /\ [](alg = "bb" =>
            \A no \in fila_prioridade :
                no.nivel < n =>
                    /\ CabeNo(NoIncluir(no)) =>
                          LimitanteIgual(ComLimitante(NoIncluir(no)).limitante,
                                         no.limitante)
                    /\ LimitanteMenorIgual(ComLimitante(NoExcluir(no)).limitante,
                                           no.limitante))
    /\ [][alg' = "bb" =>
            \A no \in fila_prioridade \ fila_prioridade' :
                \A outro \in fila_prioridade' :
                    LimitanteMenorIgual(outro.limitante, no.limitante)]_vars

\* The two children of the root are queued: the include child with the
\* root's limitante, the exclude child with a strictly smaller one
C27_Witness ==
    /\ alg = "bb" /\ pc = "laco"
    /\ \E a, b \in fila_prioridade :
          /\ a.nivel = 1 /\ a.peso > 0
          /\ b.nivel = 1 /\ b.peso = 0
          /\ LimitanteIgual(a.limitante, ComLimitante(NoInicial).limitante)
          /\ ~LimitanteMenorIgual(a.limitante, b.limitante)

\* C28: with capacity >= 0 every call of backtrack is entered with
\* peso_atual <= capacidade, so the prune 'peso_atual > capacidade' never
\* fires: a call that returns at once at its entry does so by the
\* remaining-value bound, and overweight selections are kept out by the
\* guard on the include branch.
C28_PodaDePesoMorta ==
    alg = "bt" =>
        /\ \A k \in 1..Len(pilha) :
              /\ pilha[k].peso_atual >= 0
              /\ pilha[k].peso_atual <= capacidade
        /\ (pc = "busca" /\ pilha # <<>> /\ Topo.fase = "entrada" /\ Podado(Topo))
              => Topo.valor_atual + Topo.valor_restante <= valor_maximo

\* A call that carries weight is at its entry, is not pruned, and its item
\* does not fit: the guard keeps the include branch closed
C28_Witness ==
    /\ alg = "bt" /\ pc = "busca" /\ pilha # <<>>
    /\ Topo.fase = "entrada"
    /\ ~Podado(Topo)
    /\ Topo.indice < n
    /\ Topo.peso_atual > 0
    /\ ~ItemCabe(Topo)

\* No index occurs twice in the sequence s
SemRepeticao(s) == \A j, k \in 1..Len(s) : s[j] = s[k] => j = k

\* C29: both dynamic-programming variants return the brute-force optimum
\* and a feasible selection whose values sum to it also when some items have
\* weight 0 (capacity >= 0, values >= 0); no item, of weight 0 or not, is
\* listed more than once.
C29_PesoZero ==
    (Retornou /\ alg \in {"dp", "dpo"})
        => /\ resultado.maxValue = ForcaBruta(capacidade)
           /\ IndicesValidos(resultado.selectedIndices)
           /\ SemRepeticao(resultado.selectedIndices)
           /\ SomaIndices(valores, resultado.selectedIndices) = resultado.maxValue
           /\ SomaIndices(pesos, resultado.selectedIndices) <= capacidade

\* The 2D variant has filled a knapsack of capacity 0 with two items of
\* weight 0 and positive value
C29_Witness ==
    /\ Retornou /\ alg = "dp" /\ n = 2
    /\ capacidade = 0
    /\ pesos = <<0, 0>>
    /\ valores[1] > 0 /\ valores[2] > 0
    /\ resultado.maxValue = valores[1] + valores[2]
    /\ Len(resultado.selectedIndices) = 2

\* The node is well formed: its level is within 0..n, its lucro and peso
\* are those of the items whose original index it has set, and it has set
\* only items at sorted positions below its level
NoBemFormado(no) ==
    /\ no.nivel \in 0..n
    /\ DOMAIN no.selecionados = 0..(n - 1)
    /\ no.lucro = SomaEm(valores, Marcados(no.selecionados))
    /\ no.peso = SomaEm(pesos, Marcados(no.selecionados))
    /\ \A k \in 1..n : no.selecionados[itens[k].indice] => k - 1 < no.nivel

\* C30: every node created in knapsack_branch_and_bound (the root, every
\* queued node, the include child, created whether it fits or not, and the
\* exclude child of a node that can be expanded) has 0 <= nivel <= n, lucro
\* and peso equal to the sums over the items set in selecionados, and
\* selecionados set only at sorted positions < nivel.
C30_NosBemFormados ==
    alg = "bb" =>
        /\ pc = "raiz" => NoBemFormado(NoInicial)
        /\ \A no \in fila_prioridade :
              /\ NoBemFormado(no)
              /\ no.nivel < n => /\ NoBemFormado(NoIncluir(no))
                                 /\ NoBemFormado(NoExcluir(no))

\* A queued leaf holds only the item that comes second in the caller's
\* arrays and first in the sorted order, after the other one was excluded
C30_Witness ==
    /\ alg = "bb" /\ pc = "laco" /\ n = 2
    /\ itens[1].indice = 1
    /\ \E no \in fila_prioridade :
          /\ no.nivel = 2
          /\ no.selecionados[1] /\ ~no.selecionados[0]
          /\ no.lucro = valores[2] /\ no.peso = pesos[2]
          /\ no.lucro > 0

=============================================================================
